---- MODULE Spec2Model ----
(***************************************************************************)
(* Model of IronnServer (src/src/server.rs): the route table built by      *)
(* new / public_route, the terminal operations run / bind / create_app     *)
(* that move the table into actix-web apps, and the requests the engine    *)
(* dispatches to the registered handlers.                                  *)
(*                                                                         *)
(* The HTTP engine is actix-web, which server.rs calls but does not        *)
(* contain.  What the model takes from it: App::route(path, route)         *)
(* registers one resource per call, guarded by the route's method;         *)
(* resources are tried in registration order and the first one whose path  *)
(* and guard accept the request serves it; a request no resource accepts   *)
(* gets the default 404 response; a handler's Err(e) is rendered as the    *)
(* error's response (500 and the message for ErrorInternalServerError).    *)
(* Paths are compared as literal strings (no pattern segments).            *)
(***************************************************************************)
EXTENDS Naturals, Sequences, FiniteSets, Bags

\* Longest route table the builder is driven to.
MaxRoutes == 2
\* Number of requests the engine receives in one run.
MaxReqs == 2

\* enum HttpMethod
HttpMethod == {"Get", "Post", "Put", "Delete"}

\* Paths handed to public_route, the empty path among them.
Paths == {"", "/x"}
\* Handler factories handed to public_route: text_response("hello"),
\* error_response("boom").
HandlerFns == {"text", "error"}
\* Addresses handed to bind.
Addresses == {"127.0.0.1:8080", "0.0.0.0:3000"}
\* The address run() binds.
DefaultAddress == "127.0.0.1:8080"
\* HTTP methods and paths of the requests sent to a built app.
ReqMethods == {"GET", "POST", "PUT", "DELETE"}
ReqPaths == {"/x"}
\* The workers HttpServer starts; each calls the app factory once.
Workers == {"w1", "w2"}
\* The app create_app returns.
TestApp == "test"
AppIds == Workers \cup {TestApp}

VARIABLES
    routes,     \* IronnServer.routes: Vec<PubRoute>
    callLog,    \* history: the arguments of the public_route calls, in call order
    phase,      \* "builder": the IronnServer value is owned by the caller;
                \* "serving" / "bind_failed": bind(self) has taken it;
                \* "test": create_app(self) has taken it
    consumed,   \* history: number of terminal operations that took the table
    bindResult, \* what bind returned: "none" (not returned), "Err"
    listening,  \* a listening socket is open
    built,      \* the apps that exist: workers whose factory ran, or TestApp
    apps,       \* app id -> the resources registered on it, in order
    reqs        \* bag of the requests received: each one's state, the app serving
                \* it while in flight, the handler invoked for it and the response

vars == <<routes, callLog, phase, consumed, bindResult, listening, built, apps, reqs>>

\* No handler / no response yet.
NoHandler == [fn |-> "none", id |-> 0]
NoResponse == [status |-> 0, body |-> ""]

\* route_count(&self)
RouteCount == Len(routes)

\* Outcome of one call of a handler built by text_response / error_response.
HandlerResult(fn) ==
    IF fn = "text"
    THEN [ok |-> TRUE, status |-> 200, body |-> "hello"]
    ELSE [ok |-> FALSE, status |-> 500, body |-> "boom"]

\* Faulty variant of Render: every result becomes an empty 200 response.
RenderMasked(res) == [status |-> 200, body |-> ""]

\* The engine turns the handler's result into the response: Ok(resp) as is,
\* Err(e) as e's error response.
Render(res) == [status |-> res.status, body |-> res.body]

\* The engine's default service.
NotFoundResponse == [status |-> 404, body |-> ""]

\* A route of the engine: web::get() / post() / put() / delete() accepts the one
\* method, and .to(closure) calls the captured handler.
EngineRoute(guard, handler) == [guard |-> guard, handler |-> handler]

\* App::route(path, route): one more resource, after those already registered.
AppRoute(app, path, route) ==
    Append(app, [path |-> path, guard |-> route.guard, handler |-> route.handler])

\* Faulty variant of BindRegister: the Post arm registers under web::get().
BindRegisterWrongArm(app, route) ==
    LET handler == route.handler IN
    CASE route.method = "Get"    -> AppRoute(app, route.path, EngineRoute("GET", handler))
      [] route.method = "Post"   -> AppRoute(app, route.path, EngineRoute("GET", handler))
      [] route.method = "Put"    -> AppRoute(app, route.path, EngineRoute("PUT", handler))
      [] route.method = "Delete" -> AppRoute(app, route.path, EngineRoute("DELETE", handler))

\* bind: the body of the loop of the app factory, one route onto the app.
BindRegister(app, route) ==
    LET handler == route.handler IN
    CASE route.method = "Get"    -> AppRoute(app, route.path, EngineRoute("GET", handler))
      [] route.method = "Post"   -> AppRoute(app, route.path, EngineRoute("POST", handler))
      [] route.method = "Put"    -> AppRoute(app, route.path, EngineRoute("PUT", handler))
      [] route.method = "Delete" -> AppRoute(app, route.path, EngineRoute("DELETE", handler))

\* bind: `for route in routes.iter()` from position i on.
RECURSIVE BindLoop(_, _, _)
BindLoop(rs, i, app) ==
    IF i > Len(rs) THEN app ELSE BindLoop(rs, i + 1, BindRegister(app, rs[i]))

\* bind: the closure given to HttpServer::new, App::new() and the loop.
BindFactory(rs) == BindLoop(rs, 1, <<>>)

\* Faulty variant of CreateAppRegister: the Put arm registers under web::post().
CreateAppRegisterWrongArm(app, route) ==
    LET handler == route.handler IN
    CASE route.method = "Get"    -> AppRoute(app, route.path, EngineRoute("GET", handler))
      [] route.method = "Post"   -> AppRoute(app, route.path, EngineRoute("POST", handler))
      [] route.method = "Put"    -> AppRoute(app, route.path, EngineRoute("POST", handler))
      [] route.method = "Delete" -> AppRoute(app, route.path, EngineRoute("DELETE", handler))

\* create_app: the body of its loop, one route onto the app.
CreateAppRegister(app, route) ==
    LET handler == route.handler IN
    CASE route.method = "Get"    -> AppRoute(app, route.path, EngineRoute("GET", handler))
      [] route.method = "Post"   -> AppRoute(app, route.path, EngineRoute("POST", handler))
      [] route.method = "Put"    -> AppRoute(app, route.path, EngineRoute("PUT", handler))
      [] route.method = "Delete" -> AppRoute(app, route.path, EngineRoute("DELETE", handler))

\* create_app: `for route in self.routes.iter()` from position i on.
RECURSIVE CreateAppLoop(_, _, _)
CreateAppLoop(rs, i, app) ==
    IF i > Len(rs) THEN app ELSE CreateAppLoop(rs, i + 1, CreateAppRegister(app, rs[i]))

\* create_app: App::new() and the loop.
CreateAppBuild(rs) == CreateAppLoop(rs, 1, <<>>)

\* Faulty variant of Select: the last resource that accepts the request serves it.
RECURSIVE SelectLastFrom(_, _, _, _)
SelectLastFrom(app, i, method, path) ==
    IF i < 1 THEN 0
    ELSE IF app[i].path = path /\ app[i].guard = method THEN i
    ELSE SelectLastFrom(app, i - 1, method, path)

SelectLast(app, method, path) == SelectLastFrom(app, Len(app), method, path)

\* The engine's router: the position of the resource that serves (method, path),
\* 0 when none does.  A later resource is tried only when no earlier one accepts.
RECURSIVE SelectFrom(_, _, _, _)
SelectFrom(app, i, method, path) ==
    IF i > Len(app) THEN 0
    ELSE IF app[i].path = path /\ app[i].guard = method THEN i
    ELSE SelectFrom(app, i + 1, method, path)

Select(app, method, path) == SelectFrom(app, 1, method, path)

Init ==
    /\ routes = <<>>
    /\ callLog = <<>>
    /\ phase = "builder"
    /\ consumed = 0
    /\ bindResult = "none"
    /\ listening = FALSE
    /\ built = {}
    /\ apps = [a \in AppIds |-> <<>>]
    /\ reqs = EmptyBag

\* Faulty variant of PublicRoute: a method+path pair already in the table is
\* not pushed again.
PublicRouteDedup(path, method, fn) ==
    /\ phase = "builder"
    /\ Len(callLog) < MaxRoutes
    /\ callLog' = Append(callLog, [path |-> path, method |-> method, fn |-> fn])
    /\ routes' = IF \E i \in 1..Len(routes) :
                       routes[i].path = path /\ routes[i].method = method
                 THEN routes
                 ELSE Append(routes, [path |-> path, method |-> method,
                                      handler |-> [fn |-> fn, id |-> Len(callLog) + 1]])
    /\ UNCHANGED <<phase, consumed, bindResult, listening, built, apps, reqs>>

\* Faulty variant of PublicRoute: the descriptor is inserted at the front.
PublicRouteFront(path, method, fn) ==
    /\ phase = "builder"
    /\ Len(callLog) < MaxRoutes
    /\ callLog' = Append(callLog, [path |-> path, method |-> method, fn |-> fn])
    /\ routes' = <<[path |-> path, method |-> method,
                    handler |-> [fn |-> fn, id |-> Len(callLog) + 1]]>> \o routes
    /\ UNCHANGED <<phase, consumed, bindResult, listening, built, apps, reqs>>

\* Faulty variant of PublicRoute: callable on a table a terminal operation took
\* (a shared rather than moved server value).
PublicRouteShared(path, method, fn) ==
    /\ Len(callLog) < MaxRoutes
    /\ callLog' = Append(callLog, [path |-> path, method |-> method, fn |-> fn])
    /\ routes' = Append(routes, [path |-> path, method |-> method,
                                 handler |-> [fn |-> fn, id |-> Len(callLog) + 1]])
    /\ UNCHANGED <<phase, consumed, bindResult, listening, built, apps, reqs>>

\* public_route(self, path, method, handler) -> Self: needs the server value
\* (phase "builder"), wraps the handler in a new Arc and pushes the descriptor.
PublicRoute(path, method, fn) ==
    /\ phase = "builder"
    /\ Len(callLog) < MaxRoutes
    /\ callLog' = Append(callLog, [path |-> path, method |-> method, fn |-> fn])
    /\ routes' = Append(routes, [path |-> path, method |-> method,
                                 handler |-> [fn |-> fn, id |-> Len(callLog) + 1]])
    /\ UNCHANGED <<phase, consumed, bindResult, listening, built, apps, reqs>>

\* Faulty variant of Bind: the error of .bind(address) is reported but the server
\* is run all the same.
BindIgnoreError(address) ==
    /\ phase = "builder"
    /\ consumed' = consumed + 1
    /\ \E acquired \in BOOLEAN :
          /\ phase' = "serving"
          /\ listening' = TRUE
          /\ bindResult' = IF acquired THEN "none" ELSE "Err"
    /\ UNCHANGED <<routes, callLog, built, apps, reqs>>

\* bind(self, address): HttpServer::new(factory).bind(address)?.run().await.
\* Whether the address can be acquired is the environment's choice.
Bind(address) ==
    /\ phase = "builder"
    /\ consumed' = consumed + 1
    /\ \E acquired \in BOOLEAN :
          IF acquired
          THEN /\ phase' = "serving"
               /\ listening' = TRUE
               /\ bindResult' = "none"
          ELSE /\ phase' = "bind_failed"
               /\ listening' = FALSE
               /\ bindResult' = "Err"
    /\ UNCHANGED <<routes, callLog, built, apps, reqs>>

\* run(self)
Run == Bind(DefaultAddress)

\* A worker of the running HttpServer calls the app factory.
StartWorker(w) ==
    /\ phase = "serving"
    /\ w \notin built
    /\ built' = built \cup {w}
    /\ apps' = [apps EXCEPT ![w] = BindFactory(routes)]
    /\ UNCHANGED <<routes, callLog, phase, consumed, bindResult, listening, reqs>>

\* create_app(self)
CreateApp ==
    /\ phase = "builder"
    /\ consumed' = consumed + 1
    /\ phase' = "test"
    /\ built' = {TestApp}
    /\ apps' = [apps EXCEPT ![TestApp] = CreateAppBuild(routes)]
    /\ UNCHANGED <<routes, callLog, bindResult, listening, reqs>>

\* App a is handed requests: the app of create_app once it exists; a worker's app
\* once .run() has started every worker (the accept loop starts after them).
Accepting(a) ==
    /\ a \in built
    /\ a \in Workers => Workers \subseteq built

\* The engine receives a request for app a: the router picks the resource, whose
\* closure clones the handler's Arc and calls it; no resource: the default 404.
\* Faulty variant first: the call consumes the registration (a single-shot handler).
DispatchOnce(a, method, path) ==
    /\ Accepting(a)
    /\ BagCardinality(reqs) < MaxReqs
    /\ LET i == Select(apps[a], method, path) IN
          IF i = 0
          THEN /\ reqs' = reqs (+) SetToBag({[st |-> "done", app |-> "none", method |-> method,
                     path |-> path, handler |-> NoHandler, invoked |-> 0,
                     resp |-> NotFoundResponse]})
               /\ apps' = apps
          ELSE /\ reqs' = reqs (+) SetToBag({[st |-> "pending", app |-> a, method |-> method,
                     path |-> path, handler |-> apps[a][i].handler, invoked |-> 1,
                     resp |-> NoResponse]})
               /\ apps' = [apps EXCEPT ![a] =
                     [k \in 1..(Len(apps[a]) - 1) |->
                         IF k < i THEN apps[a][k] ELSE apps[a][k + 1]]]
    /\ UNCHANGED <<routes, callLog, phase, consumed, bindResult, listening, built>>

Dispatch(a, method, path) ==
    /\ Accepting(a)
    /\ BagCardinality(reqs) < MaxReqs
    /\ LET i == Select(apps[a], method, path) IN
          IF i = 0
          THEN reqs' = reqs (+) SetToBag({[st |-> "done", app |-> "none", method |-> method,
                     path |-> path, handler |-> NoHandler, invoked |-> 0,
                     resp |-> NotFoundResponse]})
          ELSE reqs' = reqs (+) SetToBag({[st |-> "pending", app |-> a, method |-> method,
                     path |-> path, handler |-> apps[a][i].handler, invoked |-> 1,
                     resp |-> NoResponse]})
    /\ UNCHANGED <<routes, callLog, phase, consumed, bindResult, listening, built, apps>>

\* A request in flight: the engine has called the handler bound to the resource
\* that app a selected for (method, path) and awaits its future.
Pending(a, method, path) ==
    [st |-> "pending", app |-> a, method |-> method, path |-> path,
     handler |-> apps[a][Select(apps[a], method, path)].handler, invoked |-> 1,
     resp |-> NoResponse]

\* Faulty variant of Resolve: a handler error stops the server.
ResolveAbort(a, method, path) ==
    /\ a \in built
    /\ Select(apps[a], method, path) # 0
    /\ BagIn(Pending(a, method, path), reqs)
    /\ LET rq == Pending(a, method, path)
           res == HandlerResult(rq.handler.fn) IN
          /\ reqs' = (reqs (-) SetToBag({rq}))
                        (+) SetToBag({[rq EXCEPT !.st = "done", !.app = "none", !.resp = Render(res)]})
          /\ phase' = IF res.ok THEN phase ELSE "stopped"
          /\ listening' = IF res.ok THEN listening ELSE FALSE
    /\ UNCHANGED <<routes, callLog, consumed, bindResult, built, apps>>

\* The handler's future of a pending request resolves and the engine answers the
\* request with its result.
Resolve(a, method, path) ==
    /\ a \in built
    /\ Select(apps[a], method, path) # 0
    /\ BagIn(Pending(a, method, path), reqs)
    /\ LET rq == Pending(a, method, path)
           res == HandlerResult(rq.handler.fn) IN
          reqs' = (reqs (-) SetToBag({rq}))
                     (+) SetToBag({[rq EXCEPT !.st = "done", !.app = "none", !.resp = Render(res)]})
    /\ UNCHANGED <<routes, callLog, phase, consumed, bindResult, listening, built, apps>>

Next ==
    \/ \E path \in Paths, method \in HttpMethod, fn \in HandlerFns :
          PublicRoute(path, method, fn)
    \/ Run
    \/ \E address \in Addresses : Bind(address)
    \/ \E w \in Workers : StartWorker(w)
    \/ CreateApp
    \/ \E a \in AppIds, method \in ReqMethods, path \in ReqPaths :
          Dispatch(a, method, path)
    \/ \E a \in AppIds, method \in ReqMethods, path \in ReqPaths :
          Resolve(a, method, path)

Spec == Init /\ [][Next]_vars

(***************************************************************************)
(* Properties                                                              *)
(***************************************************************************)

\* The engine method a declared HttpMethod stands for.
EngineMethod(method) ==
    CASE method = "Get"    -> "GET"
      [] method = "Post"   -> "POST"
      [] method = "Put"    -> "PUT"
      [] method = "Delete" -> "DELETE"

\* Positions of the table's routes declared for (engine method, path).
Matching(method, path) ==
    {i \in 1..Len(routes) : routes[i].path = path /\ EngineMethod(routes[i].method) = method}

Earliest(S) == CHOOSE i \in S : \A j \in S : i <= j
Latest(S) == CHOOSE i \in S : \A j \in S : j <= i

Requests == BagToSet(reqs)

\* C1: while the server value exists, route_count() equals the number of
\* public_route calls made since new(): 0 at first, one more per call, whatever
\* the path (the empty path too) and whether or not the pair was seen before.
C1_RouteCountIsCalls ==
    phase = "builder" => RouteCount = Len(callLog)

C1_Witness ==
    /\ phase = "builder"
    /\ RouteCount = 2
    /\ callLog[1].path = "" /\ callLog[2].path = ""
    /\ callLog[1].method = callLog[2].method

\* C2 as stated: on the app of create_app, for every Get route of the table, a GET
\* request to its path invokes that route's handler once and gets its result.
C2_Original ==
    phase = "test" =>
        \A i \in 1..Len(routes) : \A rq \in Requests :
            (routes[i].method = "Get" /\ rq.method = "GET" /\ rq.path = routes[i].path)
                => /\ rq.invoked = 1
                   /\ rq.handler = routes[i].handler
                   /\ rq.st = "done" =>
                         rq.resp = [status |-> HandlerResult(routes[i].handler.fn).status,
                                    body |-> HandlerResult(routes[i].handler.fn).body]

\* C2 (amended): on the app of create_app, a GET request to a path with Get routes
\* invokes, once, the handler of the earliest of them and is answered with that
\* handler's status and body; a request that matches no route invokes no handler
\* and gets 404; a POST request never invokes the handler of a Get route.
C2_EarliestGetRouteServes ==
    phase = "test" =>
        \A rq \in Requests :
            /\ (rq.method = "GET" /\ Matching("GET", rq.path) # {}) =>
                  LET i == Earliest(Matching("GET", rq.path)) IN
                  /\ rq.invoked = 1
                  /\ rq.handler = routes[i].handler
                  /\ rq.st = "done" =>
                        rq.resp = [status |-> HandlerResult(routes[i].handler.fn).status,
                                   body |-> HandlerResult(routes[i].handler.fn).body]
            /\ Matching(rq.method, rq.path) = {} =>
                  /\ rq.invoked = 0
                  /\ rq.handler = NoHandler
                  /\ rq.st = "done"
                  /\ rq.resp.status = 404
            /\ rq.method = "POST" =>
                  \A i \in 1..Len(routes) :
                      routes[i].method = "Get" => rq.handler # routes[i].handler

C2_Witness ==
    /\ phase = "test"
    /\ \E rq \in Requests :
          /\ rq.method = "GET" /\ rq.st = "done" /\ rq.invoked = 1
          /\ rq.resp = [status |-> 200, body |-> "hello"]
    /\ \E rq \in Requests :
          /\ rq.method = "POST" /\ rq.st = "done" /\ rq.resp.status = 404

\* C3 as stated: a request that several identical registrations match is answered
\* by the handler of the last of them.
C3_Original ==
    \A rq \in Requests :
        Matching(rq.method, rq.path) # {} =>
            rq.handler = routes[Latest(Matching(rq.method, rq.path))].handler

\* C3 (amended): identical method+path registrations are all accepted, and a
\* matching request is answered by the handler of the first of them, never by a
\* later one.
C3_FirstRegistrationWins ==
    /\ \A a \in built : Len(apps[a]) = Len(callLog)
    /\ \A rq \in Requests :
          Matching(rq.method, rq.path) # {} =>
              /\ rq.handler.id = Earliest(Matching(rq.method, rq.path))
              /\ \A j \in Matching(rq.method, rq.path) :
                    j # Earliest(Matching(rq.method, rq.path))
                        => rq.handler # routes[j].handler

C3_Witness ==
    /\ Len(routes) = 2
    /\ routes[1].path = routes[2].path /\ routes[1].method = routes[2].method
    /\ routes[1].handler.fn # routes[2].handler.fn
    /\ \E rq \in Requests :
          /\ rq.st = "done" /\ rq.handler = routes[1].handler
          /\ rq.resp.body = HandlerResult(routes[1].handler.fn).body

\* C4: every built app holds exactly one registration per Route Descriptor, in
\* table order, with the descriptor's path and handler and the engine method of
\* its declared method.
C4_OneRegistrationPerDescriptor ==
    \A a \in built :
        /\ Len(apps[a]) = Len(routes)
        /\ \A i \in 1..Len(routes) :
              /\ apps[a][i].path = routes[i].path
              /\ apps[a][i].handler = routes[i].handler
              /\ apps[a][i].guard = EngineMethod(routes[i].method)

C4_Witness ==
    /\ Workers \subseteq built
    /\ Len(routes) = 2
    /\ routes[1].method = "Post" /\ routes[2].method = "Delete"
    /\ apps["w1"][1].guard = "POST" /\ apps["w2"][2].guard = "DELETE"

\* C5: once bind has returned an error the server is not serving, no socket is
\* open, no app exists and no request has been served or has invoked a handler.
C5_FailedBindServesNothing ==
    bindResult = "Err" =>
        /\ phase = "bind_failed"
        /\ ~listening
        /\ built = {}
        /\ reqs = EmptyBag

C5_Witness ==
    /\ bindResult = "Err"
    /\ Len(routes) = 2

\* A request whose handler resolved to an error has been answered.
ErrorAnswered(bag) ==
    \E rq \in BagToSet(bag) : rq.st = "done" /\ rq.handler.fn = "error"

\* C6: a request whose handler resolves to an error is answered 500 with the
\* message; every request answered gets the result of its own handler; and from
\* the step that answers the error on, the server stays in its phase with its
\* socket, route table, apps and registrations as they were.
C6_HandlerErrorIsConfined ==
    /\ [](\A rq \in Requests :
            (rq.st = "done" /\ rq.invoked = 1) =>
                /\ rq.handler.fn = "error" => rq.resp = [status |-> 500, body |-> "boom"]
                /\ rq.handler.fn = "text" => rq.resp = [status |-> 200, body |-> "hello"])
    /\ [][ErrorAnswered(reqs') =>
            /\ phase' = phase
            /\ listening' = listening
            /\ routes' = routes
            /\ built \subseteq built'
            /\ \A a \in built : apps'[a] = apps[a]]_vars

C6_Witness ==
    /\ phase = "serving"
    /\ listening
    /\ \E rq \in Requests :
          rq.st = "done" /\ rq.handler.fn = "error" /\ rq.resp.status = 500
    /\ \E rq \in Requests :
          rq.st = "done" /\ rq.handler.fn = "text" /\ rq.resp.status = 200

\* The handler an app selects for (method, path), NoHandler when it selects none.
Selected(app, method, path) ==
    IF Select(app, method, path) = 0 THEN NoHandler
    ELSE app[Select(app, method, path)].handler

\* C7: the app of create_app routes every request as a worker app of bind would
\* for the same table, and a worker app as the app of create_app would; and
\* create_app leaves no socket open.
C7_CreateAppRoutesLikeBind ==
    /\ \A a \in built :
          LET other == IF a = TestApp THEN BindFactory(routes) ELSE CreateAppBuild(routes) IN
          \A method \in ReqMethods : \A path \in Paths \cup ReqPaths :
              Selected(apps[a], method, path) = Selected(other, method, path)
    /\ phase = "test" => ~listening

C7_Witness ==
    /\ phase = "test"
    /\ ~listening
    /\ Len(apps[TestApp]) = 2
    /\ apps[TestApp][1].guard = "PUT"
    /\ Selected(apps[TestApp], "PUT", "/x") = routes[1].handler

\* C8: the table is taken by exactly one terminal operation; from then on the
\* server value is gone for good and the routes, their order and the calls made
\* stay as they were, whatever is served.
C8_ConsumedOnce ==
    /\ [](consumed <= 1 /\ (phase = "builder" <=> consumed = 0))
    /\ [][phase # "builder" =>
            /\ phase' # "builder"
            /\ consumed' = consumed
            /\ routes' = routes
            /\ callLog' = callLog]_vars

C8_Witness ==
    /\ consumed = 1
    /\ Len(routes) = 2
    /\ \E rq \in Requests : rq.st = "done" /\ rq.invoked = 1

\* C9: every request for a route, however many were served before it or are in
\* flight with it on any worker, has one invocation of the route's stored handler
\* of its own and is answered with that handler's result; serving a request leaves
\* the handler registered.
C9_HandlerReinvocable ==
    /\ \A rq \in Requests : rq.invoked = IF rq.handler = NoHandler THEN 0 ELSE 1
    /\ \A rq \in Requests :
          \A i \in 1..Len(routes) :
              (routes[i].path = rq.path /\ EngineMethod(routes[i].method) = rq.method
                /\ \A j \in 1..(i - 1) : routes[j].path # rq.path
                                         \/ EngineMethod(routes[j].method) # rq.method)
                  => /\ rq.handler = routes[i].handler
                     /\ rq.st = "done" => rq.resp.body = HandlerResult(routes[i].handler.fn).body
    /\ \A a \in built : \A i \in 1..Len(routes) :
          \E k \in 1..Len(apps[a]) : apps[a][k].handler = routes[i].handler

C9_Witness ==
    \E rq1 \in Requests, rq2 \in Requests :
        /\ rq1.st = "pending" /\ rq1.app = "w1"
        /\ rq2.st = "pending" /\ rq2.app = "w2"
        /\ rq1.handler = rq2.handler
        /\ rq1.invoked = 1 /\ rq2.invoked = 1

\* C10: the k-th public_route call's path, method and handler are at position k of
\* the table, earlier descriptors keep their place, and every built app holds its
\* registrations in the order of the calls.
C10_TableIsCallOrder ==
    /\ Len(routes) = Len(callLog)
    /\ \A k \in 1..Len(routes) :
          /\ routes[k].path = callLog[k].path
          /\ routes[k].method = callLog[k].method
          /\ routes[k].handler = [fn |-> callLog[k].fn, id |-> k]
    /\ \A a \in built : \A k \in 1..Len(apps[a]) :
          k <= Len(callLog) /\ apps[a][k].path = callLog[k].path
                            /\ apps[a][k].handler.fn = callLog[k].fn

C10_Witness ==
    /\ Len(routes) = 2
    /\ callLog[1] # callLog[2]
    /\ routes[1].path = "/x" /\ routes[2].path = ""
    /\ TestApp \in built
    /\ apps[TestApp][1].path = "/x"

====
